---- MODULE Spec2Model ----
(***************************************************************************)
(* Model of the attack activity data model of the dnd5e system             *)
(* (module/data/activity/attack-data.mjs, class AttackActivityData).       *)
(*                                                                         *)
(* Conventions used to represent JavaScript values:                        *)
(*   - an optional value (undefined / null or a value) is a sequence of    *)
(*     length 0 or 1: << >> is "unset", <<v>> is "set to v";               *)
(*   - a Set is a duplicate-free sequence in insertion order;              *)
(*   - a string that is falsy in JavaScript is "";                         *)
(*   - a number that is falsy in JavaScript (null, undefined, 0) is 0;     *)
(*   - null returned from a getter that otherwise returns a string is the  *)
(*     value NULL, which is different from every ability id and from the   *)
(*     configuration string "none".                                        *)
(***************************************************************************)
EXTENDS Integers, Sequences, FiniteSets, TLC

VARIABLES
  actor,      \* this.actor (with actor.exists = FALSE when there is no actor)
  item,       \* this.item (type and the parts of item.system the activity reads)
  activity,   \* the attack activity's prepared data (attack, damage, labels)
  source,     \* the legacy item record handed to transformTypeData
  phase,      \* position in the preparation pipeline: "raw", "derived", "final"
  passes,     \* number of completed preparation passes
  used,       \* the damage part the last roll was built from (the local "damage")
  op,         \* name of the last operation that ran
  args,       \* arguments of the last operation
  ret         \* value returned by the last operation

vars == <<actor, item, activity, source, used, phase, passes, op, args, ret>>

(***************************************************************************)
(* Bounds of the model.                                                    *)
(***************************************************************************)
MaxMod == 1          \* ability modifiers of an actor range over 0 .. MaxMod
MaxParts == 2        \* most damage parts an activity or a legacy item holds
MaxPasses == 2       \* most preparation passes run on one activity
ThresholdSpan == 3   \* critical thresholds range over 20 -+ ThresholdSpan

(***************************************************************************)
(* Values of the program.                                                  *)
(***************************************************************************)
NULL == "<null>"
Infinity == 1000000
NegInfinity == 0 - Infinity
DefaultThreshold == 20
meleeAttack == "str"     \* CONFIG.DND5E.defaultAbilities.meleeAttack
rangedAttack == "dex"    \* CONFIG.DND5E.defaultAbilities.rangedAttack

AbilityIds == {"str", "dex", "int", "wis"}
ActionTypes == {"mwak", "rwak", "msak", "rsak"}
Modes == {"oneHanded", "twoHanded", "offHand", "thrown"}

Unset == << >>
IsSet(o) == Len(o) = 1

\* new Set(values): the values in first-seen order without duplicates
RECURSIVE NewSet(_)
NewSet(values) ==
  IF Len(values) = 0 THEN << >>
  ELSE LET init == NewSet(SubSeq(values, 1, Len(values) - 1))
           last == values[Len(values)]
       IN IF \E i \in 1..Len(init) : init[i] = last THEN init ELSE Append(init, last)

\* Math.min over a non-empty sequence of numbers
RECURSIVE MathMin(_)
MathMin(xs) ==
  IF Len(xs) = 1 THEN xs[1]
  ELSE LET m == MathMin(Tail(xs)) IN IF xs[1] < m THEN xs[1] ELSE m

(***************************************************************************)
(* Properties (getters) of AttackActivityData.                             *)
(***************************************************************************)

\* get actionType
actionType(activity_) ==
  LET type == activity_.attack.type
  IN (IF type.value = "ranged" THEN "r" ELSE "m")
       \o (IF type.classification = "spell" THEN "sak" ELSE "wak")

\* Mutant of availableAbilities: the NPC case is lost.
availableAbilities_noNpc(actor_, item_, activity_) ==
  IF IsSet(item_.availableAbilities) THEN item_.availableAbilities[1]
  ELSE IF activity_.attack.type.classification = "spell"
    THEN NewSet(IF actor_.exists /\ actor_.spellcasting # ""
                  THEN <<actor_.spellcasting>>
                  ELSE IF actor_.exists THEN actor_.spellcastingClasses ELSE << >>)
  ELSE NewSet(<<IF activity_.attack.type.value = "melee" THEN meleeAttack ELSE rangedAttack>>)

\* get availableAbilities
availableAbilities(actor_, item_, activity_) ==
  IF IsSet(item_.availableAbilities) THEN item_.availableAbilities[1]
  ELSE IF activity_.attack.type.classification = "spell"
    THEN NewSet(IF actor_.exists /\ actor_.spellcasting # ""
                  THEN <<actor_.spellcasting>>
                  ELSE IF actor_.exists THEN actor_.spellcastingClasses ELSE << >>)
  ELSE IF actor_.exists /\ actor_.type = "npc"
    THEN NewSet(<<meleeAttack, rangedAttack>>)
  ELSE NewSet(<<IF activity_.attack.type.value = "melee" THEN meleeAttack ELSE rangedAttack>>)

\* abilities[a]?.mod ?? -Infinity
AbilityMod(actor_, a) ==
  IF actor_.exists /\ a \in DOMAIN actor_.abilities THEN actor_.abilities[a] ELSE NegInfinity

\* availableAbilities.reduce((largest, ability) => ..., availableAbilities.first())
RECURSIVE ReduceLargest(_, _, _, _)
ReduceLargest(actor_, S, i, largest) ==
  IF i > Len(S) THEN largest
  ELSE ReduceLargest(actor_, S, i + 1,
         IF AbilityMod(actor_, S[i]) > AbilityMod(actor_, largest) THEN S[i] ELSE largest)

\* Mutant of ability: ties go to the ability seen last (>= in place of >).
RECURSIVE ReduceLargest_lastWins(_, _, _, _)
ReduceLargest_lastWins(actor_, S, i, largest) ==
  IF i > Len(S) THEN largest
  ELSE ReduceLargest_lastWins(actor_, S, i + 1,
         IF AbilityMod(actor_, S[i]) >= AbilityMod(actor_, largest) THEN S[i] ELSE largest)

ability_lastWins(actor_, item_, activity_) ==
  LET S == availableAbilities(actor_, item_, activity_)
  IN IF Len(S) = 0 THEN NULL
     ELSE IF Len(S) = 1 THEN S[1]
     ELSE ReduceLargest_lastWins(actor_, S, 1, S[1])

\* get ability
ability(actor_, item_, activity_) ==
  LET S == availableAbilities(actor_, item_, activity_)
  IN IF Len(S) = 0 THEN NULL
     ELSE IF Len(S) = 1 THEN S[1]
     ELSE ReduceLargest(actor_, S, 1, S[1])

\* Mutant of criticalThreshold: the item's override is ignored.
criticalThreshold_noItem(item_, activity_) ==
  LET ammoThreshold == Unset
      orInfinity(o) == IF IsSet(o) THEN o[1] ELSE Infinity
      threshold == MathMin(<<orInfinity(activity_.attack.critical.threshold),
                             orInfinity(ammoThreshold)>>)
  IN IF threshold < Infinity THEN threshold ELSE DefaultThreshold

\* get criticalThreshold
criticalThreshold(item_, activity_) ==
  LET ammoThreshold == Unset
      orInfinity(o) == IF IsSet(o) THEN o[1] ELSE Infinity
      threshold == MathMin(<<orInfinity(activity_.attack.critical.threshold),
                             orInfinity(item_.criticalThreshold),
                             orInfinity(ammoThreshold)>>)
  IN IF threshold < Infinity THEN threshold ELSE DefaultThreshold

\* Mutant of getAttackData: flat mode no longer suppresses the computed terms.
getAttackData_flatIgnored(actor_, item_, activity_) ==
  LET attack == activity_.attack
      hasProf == IsSet(item_.prof) /\ item_.prof[1].hasProficiency
      computed == actor_.exists
      actorBonus == IF actor_.exists THEN actor_.bonuses[actionType(activity_)] ELSE ""
      parts == (IF computed /\ attack.ability # "none" THEN <<"@mod">> ELSE << >>)
            \o (IF computed /\ hasProf THEN <<"@prof">> ELSE << >>)
            \o (IF computed /\ actorBonus # "" THEN <<actorBonus>> ELSE << >>)
            \o (IF attack.bonus # "" THEN <<attack.bonus>> ELSE << >>)
            \o (IF item_.magicalBonus # 0 /\ item_.magicAvailable
                  THEN <<ToString(item_.magicalBonus)>> ELSE << >>)
  IN [data |-> [prof |-> IF computed /\ hasProf THEN item_.prof[1].term ELSE ""],
      parts |-> parts]

\* getAttackData(): the roll data and the ordered terms of the attack roll
getAttackData(actor_, item_, activity_) ==
  LET attack == activity_.attack
      hasProf == IsSet(item_.prof) /\ item_.prof[1].hasProficiency
      computed == actor_.exists /\ ~attack.flat
      actorBonus == IF actor_.exists THEN actor_.bonuses[actionType(activity_)] ELSE ""
      parts == (IF computed /\ attack.ability # "none" THEN <<"@mod">> ELSE << >>)
            \o (IF computed /\ hasProf THEN <<"@prof">> ELSE << >>)
            \o (IF computed /\ actorBonus # "" THEN <<actorBonus>> ELSE << >>)
            \o (IF attack.bonus # "" THEN <<attack.bonus>> ELSE << >>)
            \o (IF item_.magicalBonus # 0 /\ item_.magicAvailable /\ ~attack.flat
                  THEN <<ToString(item_.magicalBonus)>> ELSE << >>)
  IN [data |-> [prof |-> IF computed /\ hasProf THEN item_.prof[1].term ELSE ""],
      parts |-> parts]

(***************************************************************************)
(* Data preparation.                                                       *)
(***************************************************************************)

\* DamageData.formula: the dice of a part followed by its bonus
formula(part) ==
  LET dice == IF part.number # 0 /\ part.denomination # 0
                THEN ToString(part.number) \o "d" \o ToString(part.denomination) ELSE ""
  IN IF dice # "" /\ part.bonus # "" THEN dice \o " + " \o part.bonus
     ELSE dice \o part.bonus

\* String.prototype.includes
Includes(str, sub) ==
  \E i \in 1..(Len(str) - Len(sub) + 1) : SubSeq(str, i, i + Len(sub) - 1) = sub

\* prepareData(): backfill the attack type from the item, never overwriting
prepareData(item_, activity_) ==
  LET type == activity_.attack.type
  IN [activity_ EXCEPT
        !.attack.type.value = IF type.value # "" THEN type.value ELSE item_.attackType,
        !.attack.type.classification =
           IF type.classification # "" THEN type.classification
           ELSE item_.attackClassification]

\* prepareFinalData(rollData): prepend the item's base damage, then the labels.
\* The labels hold the terms of the attack roll; their simplification into a
\* display string is done by simplifyRollFormula, outside this class.
prepareFinalData(actor_, item_, activity_) ==
  LET withBase ==
        IF activity_.damage.includeBase /\ item_.hasBase /\ formula(item_.base) # ""
          THEN [activity_ EXCEPT !.damage.parts = <<[item_.base EXCEPT !.base = TRUE]>> \o @]
          ELSE activity_
      terms == getAttackData(actor_, item_, withBase).parts
  IN [withBase EXCEPT !.labels = [modifier |-> terms, toHit |-> terms]]

(***************************************************************************)
(* Damage rolls.                                                           *)
(***************************************************************************)

\* DamageData.steppedDenomination()
steppedDenomination(part) == part.denomination

\* BaseActivityData._processDamagePart: the roll of one damage part
superProcessDamagePart(damage, rollConfig, rollData) ==
  [data |-> [mod |-> rollData.mod, magicalBonus |-> 0],
   parts |-> IF formula(damage) # "" THEN <<formula(damage)>> ELSE << >>,
   options |-> [types |-> damage.types, critical |-> [bonusDice |-> 0]],
   base |-> FALSE]

\* The versatile definition as substituted for the part (lines 277-282)
swapVersatile(versatile, damage) ==
  [versatile EXCEPT
     !.base = TRUE,
     !.denomination = IF @ # 0 THEN @ ELSE steppedDenomination(damage),
     !.number = IF @ # 0 THEN @ ELSE damage.number,
     !.types = damage.types]

\* Mutant of _processDamagePart: the versatile definition is changed in place
\* instead of on a clone, and its dice are overwritten by the part's.
_processDamagePart_inPlace(actor_, item_, activity_, damage, rollConfig, rollData) ==
  LET swap == item_.isVersatile /\ rollConfig.mode = "twoHanded"
      usedPart == IF swap
                    THEN [item_.versatile EXCEPT !.base = TRUE,
                            !.denomination = steppedDenomination(damage),
                            !.number = damage.number, !.types = damage.types]
                    ELSE damage
      roll == superProcessDamagePart(usedPart, rollConfig, rollData)
  IN [roll |-> [roll EXCEPT !.base = TRUE],
      damage |-> usedPart,
      item |-> IF swap THEN [item_ EXCEPT !.versatile = usedPart] ELSE item_]

\* _processDamagePart(damage, rollConfig, rollData): the roll, the part it was
\* built from and the item as the call leaves it
_processDamagePart(actor_, item_, activity_, damage, rollConfig, rollData) ==
  LET \* Line 273 calls the inherited method for a part that is not the base
      \* part and drops what it returns: control goes on for every part.
      swap == item_.isVersatile /\ rollConfig.mode = "twoHanded"
      usedPart == IF swap THEN swapVersatile(item_.versatile, damage) ELSE damage
      roll0 == [superProcessDamagePart(usedPart, rollConfig, rollData) EXCEPT !.base = TRUE]
      includeMod == rollConfig.mode # "offHand" \/ roll0.data.mod < 0
      roll1 == IF item_.type = "weapon" /\ includeMod
                  /\ ~\E i \in 1..Len(roll0.parts) : Includes(roll0.parts[i], "@mod")
                 THEN [roll0 EXCEPT !.parts = Append(@, "@mod")] ELSE roll0
      roll2 == IF item_.type = "weapon" /\ item_.magicalBonus # 0 /\ item_.magicAvailable
                 THEN [roll1 EXCEPT !.parts = Append(@, "@magicalBonus"),
                                    !.data.magicalBonus = item_.magicalBonus]
                 ELSE roll1
      criticalBonusDice == IF actor_.exists THEN actor_.criticalDice ELSE 0
      roll3 == IF actionType(activity_) = "mwak" /\ criticalBonusDice # 0
                 THEN [roll2 EXCEPT !.options.critical.bonusDice = criticalBonusDice]
                 ELSE roll2
  IN [roll |-> roll3, damage |-> usedPart, item |-> item_]

(***************************************************************************)
(* Data migrations.                                                        *)
(***************************************************************************)

\* BaseActivityData.transformDamagePartData(source, [formula, type]): the
\* damage part that a legacy [formula, type] pair describes
transformDamagePartData(source_, part) ==
  LET dice == CASE part[1] = "1d8" -> [number |-> 1, denomination |-> 8, bonus |-> ""]
                [] part[1] = "2d6 + 1" -> [number |-> 2, denomination |-> 6, bonus |-> "1"]
                [] OTHER -> [number |-> 0, denomination |-> 0, bonus |-> part[1]]
  IN [number |-> dice.number, denomination |-> dice.denomination, bonus |-> dice.bonus,
      types |-> IF part[2] # "" THEN <<part[2]>> ELSE << >>, base |-> FALSE]

\* damageParts.map(part => this.transformDamagePartData(source, part))
MapParts(source_, damageParts) ==
  [i \in 1..Len(damageParts) |-> transformDamagePartData(source_, damageParts[i])]

\* The activity record built from the legacy fields (lines 134-154)
MergedActivity(source_, activityData, damageParts) ==
  LET system == source_.system
  IN [attack |->
        [ability |-> IF IsSet(system.ability) THEN system.ability[1] ELSE "",
         bonus |-> IF IsSet(system.attack) THEN system.attack[1].bonus ELSE "",
         critical |-> [threshold |-> IF IsSet(system.critical)
                                       THEN system.critical[1].threshold ELSE Unset],
         flat |-> IF IsSet(system.attack) THEN system.attack[1].flat ELSE FALSE,
         type |-> [value |-> IF Head(system.actionType[1]) = "m" THEN "melee" ELSE "ranged",
                   classification |->
                     IF SubSeq(system.actionType[1], Len(system.actionType[1]) - 2,
                               Len(system.actionType[1])) = "wak"
                       THEN "weapon" ELSE "spell"]],
      damage |->
        [critical |-> [bonus |-> IF IsSet(system.critical)
                                   THEN system.critical[1].damage ELSE ""],
         includeBase |-> TRUE,
         parts |-> MapParts(source_, damageParts)]] @@ activityData

\* Mutant of transformTypeData: the first part is split off for every item kind.
transformTypeData_anyKind(source_, activityData) ==
  LET legacy == IF source_.system.hasDamage THEN source_.system.damage.parts ELSE << >>
      split == Len(legacy) > 0
      after == IF split THEN [source_ EXCEPT !.system.damage.parts = <<legacy[1]>>]
               ELSE source_
      damageParts == IF split THEN Tail(legacy) ELSE legacy
      threw == ~IsSet(source_.system.actionType)
  IN [source |-> after, threw |-> threw,
      value |-> IF threw THEN [attack |-> NULL, damage |-> NULL]
                ELSE MergedActivity(after, activityData, damageParts)]

\* Mutant of transformTypeData: a weapon's first part also stays in the activity.
transformTypeData_firstKept(source_, activityData) ==
  LET legacy == IF source_.system.hasDamage THEN source_.system.damage.parts ELSE << >>
      split == source_.type = "weapon" /\ Len(legacy) > 0
      after == IF split THEN [source_ EXCEPT !.system.damage.parts = <<legacy[1]>>]
               ELSE source_
      threw == ~IsSet(source_.system.actionType)
  IN [source |-> after, threw |-> threw,
      value |-> IF threw THEN [attack |-> NULL, damage |-> NULL]
                ELSE MergedActivity(after, activityData, legacy)]

\* static transformTypeData(source, activityData): the source as the call leaves
\* it, whether the call threw (actionType missing), and the activity returned
transformTypeData(source_, activityData) ==
  LET legacy == IF source_.system.hasDamage THEN source_.system.damage.parts ELSE << >>
      split == source_.type = "weapon" /\ Len(legacy) > 0
      after == IF split THEN [source_ EXCEPT !.system.damage.parts = <<legacy[1]>>]
               ELSE source_
      damageParts == IF split THEN Tail(legacy) ELSE legacy
      threw == ~IsSet(source_.system.actionType)
  IN [source |-> after, threw |-> threw,
      value |-> IF threw THEN [attack |-> NULL, damage |-> NULL]
                ELSE MergedActivity(after, activityData, damageParts)]

(***************************************************************************)
(* Entities the specifications start from.                                 *)
(***************************************************************************)
Range(s) == {s[i] : i \in 1..Len(s)}
SeqsUpTo(S, n) == UNION {[1..k -> S] : k \in 0..n}

NoBonuses == [t \in ActionTypes |-> ""]
NoActor == [exists |-> FALSE, type |-> "", abilities |-> << >>, spellcasting |-> "",
            spellcastingClasses |-> << >>, bonuses |-> NoBonuses, criticalDice |-> 0]

AbilityTables == UNION {[D -> 0..MaxMod] : D \in SUBSET AbilityIds}
ClassLists == SeqsUpTo({"int", "wis"}, 2)
ItemAbilitySets == {NewSet(s) : s \in SeqsUpTo({meleeAttack, rangedAttack}, 2)}

NoPart == [number |-> 0, denomination |-> 0, bonus |-> "", types |-> << >>, base |-> FALSE]

PlainItem == [type |-> "weapon", availableAbilities |-> Unset, criticalThreshold |-> Unset,
              prof |-> Unset, magicalBonus |-> 0, magicAvailable |-> FALSE,
              isVersatile |-> FALSE, hasBase |-> FALSE, base |-> NoPart,
              versatile |-> NoPart, attackType |-> "", attackClassification |-> ""]

PlainActivity ==
  [attack |-> [ability |-> "", bonus |-> "", critical |-> [threshold |-> Unset],
               flat |-> FALSE, type |-> [value |-> "melee", classification |-> "weapon"]],
   damage |-> [critical |-> [bonus |-> ""], includeBase |-> TRUE, parts |-> << >>],
   labels |-> [modifier |-> << >>, toHit |-> << >>],
   _source |-> [damage |-> [parts |-> << >>]]]

NoSource == [type |-> "", system |-> [hasDamage |-> FALSE, damage |-> [parts |-> << >>],
                                      ability |-> Unset, attack |-> Unset,
                                      critical |-> Unset, actionType |-> Unset]]

(***************************************************************************)
(* The getters, called on a prepared activity.                             *)
(***************************************************************************)
Return(name, arguments, value) ==
  /\ op' = name
  /\ args' = arguments
  /\ ret' = value

GetAvailableAbilities ==
  /\ Return("availableAbilities", << >>, availableAbilities(actor, item, activity))
  /\ UNCHANGED <<actor, item, activity, source, used, phase, passes>>

GetAbility ==
  /\ Return("ability", << >>, ability(actor, item, activity))
  /\ UNCHANGED <<actor, item, activity, source, used, phase, passes>>

GetCriticalThreshold ==
  /\ Return("criticalThreshold", << >>, criticalThreshold(item, activity))
  /\ UNCHANGED <<actor, item, activity, source, used, phase, passes>>

GetAttackData ==
  /\ Return("getAttackData", << >>, getAttackData(actor, item, activity))
  /\ UNCHANGED <<actor, item, activity, source, used, phase, passes>>

Prepared ==
  /\ source = NoSource
  /\ used = NoPart
  /\ phase = "final"
  /\ passes = 1
  /\ op = "init"
  /\ args = << >>
  /\ ret = NULL

\* Ability resolution: every actor, item override and attack type.
InitAbility ==
  /\ actor \in {NoActor} \cup
       {[NoActor EXCEPT !.exists = TRUE, !.type = t, !.abilities = ab,
                        !.spellcasting = sc, !.spellcastingClasses = cl] :
          t \in {"npc", "character"}, ab \in AbilityTables,
          sc \in {"", "int"}, cl \in ClassLists}
  /\ item \in {[PlainItem EXCEPT !.availableAbilities = o] :
                 o \in {Unset} \cup {<<s>> : s \in ItemAbilitySets}}
  /\ activity \in {[PlainActivity EXCEPT !.attack.type.value = v,
                                         !.attack.type.classification = c] :
                     v \in {"melee", "ranged"}, c \in {"weapon", "unarmed", "spell"}}
  /\ Prepared

NextAbility == GetAvailableAbilities \/ GetAbility

SpecAbility == InitAbility /\ [][NextAbility]_vars

\* Critical thresholds: every combination of the two overrides.
Thresholds == (DefaultThreshold - ThresholdSpan)..(DefaultThreshold + ThresholdSpan)
OptThresholds == {Unset} \cup {<<t>> : t \in Thresholds}

InitCritical ==
  /\ actor = NoActor
  /\ item \in {[PlainItem EXCEPT !.criticalThreshold = o] : o \in OptThresholds}
  /\ activity \in {[PlainActivity EXCEPT !.attack.critical.threshold = o] : o \in OptThresholds}
  /\ Prepared

NextCritical == GetCriticalThreshold

SpecCritical == InitCritical /\ [][NextCritical]_vars

\* Attack roll terms: every actor state the term list depends on.
BonusTables == {[t \in ActionTypes |-> IF t \in T THEN "1" ELSE ""] :
                  T \in {{}, {"mwak"}, {"rwak", "msak", "rsak"}}}
Profs == {Unset, <<[hasProficiency |-> FALSE, term |-> "0"]>>,
          <<[hasProficiency |-> TRUE, term |-> "2"]>>}

InitAttack ==
  /\ actor \in {NoActor} \cup
       {[NoActor EXCEPT !.exists = TRUE, !.type = t, !.abilities = ab,
                        !.spellcasting = sc, !.bonuses = b] :
          t \in {"npc", "character"}, ab \in {[a \in AbilityIds |-> MaxMod]},
          sc \in {"", "int"}, b \in BonusTables}
  /\ item \in {[PlainItem EXCEPT !.availableAbilities = o, !.prof = p,
                                 !.magicalBonus = m, !.magicAvailable = av] :
                 o \in {Unset, <<<< >>>>, <<<<meleeAttack>>>>}, p \in Profs,
                 m \in 0..1, av \in BOOLEAN}
  /\ activity \in {[PlainActivity EXCEPT !.attack.ability = a, !.attack.bonus = b,
                                         !.attack.flat = f, !.attack.type.value = v,
                                         !.attack.type.classification = c] :
                     a \in {"", "none", "str"}, b \in {"", "2"}, f \in BOOLEAN,
                     v \in {"melee", "ranged"}, c \in {"weapon", "spell"}}
  /\ Prepared

NextAttack == GetAttackData

SpecAttack == InitAttack /\ [][NextAttack]_vars

(***************************************************************************)
(* The preparation pipeline and the damage rolls of a prepared activity.   *)
(***************************************************************************)
PrepareData ==
  /\ phase \in {"raw", "final"}
  /\ passes < MaxPasses
  /\ activity' = prepareData(item, activity)
  /\ phase' = "derived"
  /\ Return("prepareData", << >>, NULL)
  /\ UNCHANGED <<actor, item, source, used, passes>>

PrepareFinalData ==
  /\ phase = "derived"
  /\ activity' = prepareFinalData(actor, item, activity)
  /\ phase' = "final"
  /\ passes' = passes + 1
  /\ Return("prepareFinalData", << >>, NULL)
  /\ UNCHANGED <<actor, item, source, used>>

ProcessDamagePart ==
  /\ phase = "final"
  /\ \E i \in 1..Len(activity.damage.parts), mode \in Modes, mod \in {-1, MaxMod} :
       LET damage == activity.damage.parts[i]
           rollConfig == [mode |-> mode]
           rollData == [mod |-> mod]
           done == _processDamagePart(actor, item, activity, damage, rollConfig, rollData)
       IN /\ item' = done.item
          /\ used' = done.damage
          /\ Return("_processDamagePart",
                    [damage |-> damage, rollConfig |-> rollConfig, rollData |-> rollData],
                    done.roll)
  /\ UNCHANGED <<actor, activity, source, phase, passes>>

OwnParts == {[NoPart EXCEPT !.number = 1, !.denomination = 6, !.types = <<"fire">>],
             [NoPart EXCEPT !.bonus = "@mod", !.types = <<"cold">>]}
BasePart == [NoPart EXCEPT !.number = 1, !.denomination = 8, !.types = <<"slashing">>]
Versatiles == {[NoPart EXCEPT !.number = 2, !.denomination = 10, !.types = <<"bludgeoning">>],
               [NoPart EXCEPT !.denomination = 10, !.types = <<"bludgeoning">>],
               [NoPart EXCEPT !.number = 2],
               NoPart}

PipelineActor == [NoActor EXCEPT !.exists = TRUE, !.type = "character",
                                 !.abilities = [a \in AbilityIds |-> MaxMod],
                                 !.criticalDice = 1]
\* Weapons, versatile or not, and one item that is not a weapon.
PipelineItems ==
  {[PlainItem EXCEPT !.type = k[1], !.isVersatile = k[2], !.versatile = k[3],
                     !.hasBase = b[1], !.base = b[2],
                     !.magicalBonus = m, !.magicAvailable = m # 0,
                     !.attackType = "melee", !.attackClassification = "weapon"] :
     k \in {<<"equipment", FALSE, NoPart>>, <<"weapon", FALSE, NoPart>>}
             \cup {<<"weapon", TRUE, v>> : v \in Versatiles},
     b \in {<<FALSE, NoPart>>, <<TRUE, NoPart>>, <<TRUE, BasePart>>},
     m \in 0..1}
RawActivities ==
  {[PlainActivity EXCEPT !.attack.type.value = v,
                         !.attack.type.classification = "",
                         !.damage.includeBase = ib,
                         !.damage.parts = ps,
                         !._source.damage.parts = ps] :
     v \in {"", "ranged"}, ib \in BOOLEAN, ps \in SeqsUpTo(OwnParts, MaxParts)}

InitPrepare ==
  /\ actor = PipelineActor
  /\ item \in PipelineItems
  /\ activity \in RawActivities
  /\ source = NoSource
  /\ used = NoPart
  /\ phase = "raw"
  /\ passes = 0
  /\ op = "init"
  /\ args = << >>
  /\ ret = NULL

NextPrepare == PrepareData \/ PrepareFinalData

SpecPrepare == InitPrepare /\ [][NextPrepare]_vars

\* Damage rolls of an activity that went through one preparation pass.
InitDamage ==
  /\ actor = PipelineActor
  /\ item \in PipelineItems
  /\ activity \in {prepareFinalData(actor, item, prepareData(item, raw)) :
                     raw \in RawActivities}
  /\ Prepared

NextDamage == ProcessDamagePart

SpecDamage == InitDamage /\ [][NextDamage]_vars

(***************************************************************************)
(* Migration of legacy item records.                                       *)
(***************************************************************************)
TransformTypeData ==
  /\ LET activityData == [type |-> "attack"]
         done == transformTypeData(source, activityData)
     IN /\ source' = done.source
        /\ Return("transformTypeData",
                  [source |-> source, activityData |-> activityData],
                  [threw |-> done.threw, value |-> done.value])
  /\ UNCHANGED <<actor, item, activity, used, phase, passes>>

LegacyParts == {<<"1d8", "slashing">>, <<"2d6 + 1", "fire">>}

InitMigrate ==
  /\ source \in {[type |-> t,
                  system |-> [hasDamage |-> d[1], damage |-> [parts |-> d[2]],
                              ability |-> ab, attack |-> at,
                              critical |-> <<[threshold |-> <<19>>, damage |-> "1d6"]>>,
                              actionType |-> ac]] :
                   t \in {"weapon", "spell"},
                   d \in {<<FALSE, << >>>>}
                           \cup {<<TRUE, ps>> : ps \in SeqsUpTo(LegacyParts, MaxParts + 1)},
                   ab \in {Unset, <<"dex">>},
                   at \in {Unset, <<[bonus |-> "1", flat |-> TRUE]>>},
                   ac \in {Unset, <<"mwak">>, <<"rsak">>}}
  /\ actor = NoActor
  /\ item = PlainItem
  /\ activity = PlainActivity
  /\ used = NoPart
  /\ phase = "raw"
  /\ passes = 0
  /\ op = "init"
  /\ args = << >>
  /\ ret = NULL

NextMigrate == TransformTypeData

SpecMigrate == InitMigrate /\ [][NextMigrate]_vars

(***************************************************************************)
(* Properties.                                                             *)
(***************************************************************************)

\* C1. With attack.flat set, the terms returned by getAttackData are exactly
\* the activity's own bonus when there is one and nothing otherwise, whatever
\* the actor, the proficiency, the actor's bonus and the item's magical bonus.
C1_FlatKeepsOnlyBonus ==
  (op = "getAttackData" /\ activity.attack.flat) =>
     ret.parts = IF activity.attack.bonus # "" THEN <<activity.attack.bonus>> ELSE << >>

\* A flat attack made by a proficient actor with a bonus for the action type,
\* using an item whose magical bonus is available.
C1_Witness ==
  /\ op = "getAttackData"
  /\ activity.attack.flat
  /\ activity.attack.bonus # ""
  /\ activity.attack.ability # "none"
  /\ actor.exists
  /\ actor.bonuses[actionType(activity)] # ""
  /\ IsSet(item.prof) /\ item.prof[1].hasProficiency
  /\ item.magicalBonus # 0 /\ item.magicAvailable

\* The base part expected in front of the activity's own parts, if any
ExpectedParts ==
  (IF activity.damage.includeBase /\ item.hasBase /\ formula(item.base) # ""
     THEN <<[item.base EXCEPT !.base = TRUE]>> ELSE << >>)
    \o activity._source.damage.parts

\* C2. After any number of preparation passes damage.parts is what one pass
\* gives: the item's base part tagged base at index 0 when it is included,
\* then the activity's own parts in order, and no other part tagged base.
C2_PassesIdempotent ==
  (phase = "final" /\ passes >= 1) => activity.damage.parts = ExpectedParts

\* C3. The roll built by _processDamagePart is flagged base exactly when the
\* part handed to it is tagged base.
C3_RollBaseIffPartBase ==
  op = "_processDamagePart" => (ret.base <=> args.damage.base)

\* What the migration does to the source: a weapon with legacy parts keeps
\* only the first of them, nothing else changes
SourceAfterMigration(before) ==
  IF before.type = "weapon" /\ before.system.hasDamage
       /\ Len(before.system.damage.parts) >= 1
    THEN [before EXCEPT !.system.damage.parts = <<@[1]>>]
    ELSE before

FirstLargest(S, result) ==
  \E i \in 1..Len(S) :
     /\ result = S[i]
     /\ \A j \in 1..Len(S) : AbilityMod(actor, S[j]) <= AbilityMod(actor, S[i])
     /\ \A j \in 1..(i - 1) : AbilityMod(actor, S[j]) < AbilityMod(actor, S[i])

ResolvedAs(none) ==
  LET S == availableAbilities(actor, item, activity)
  IN op = "ability" =>
       /\ Len(S) = 0 => ret = none
       /\ Len(S) = 1 => ret = S[1]
       /\ (Len(S) > 1 /\ actor.exists) => FirstLargest(S, ret)
       /\ (Len(S) > 1 /\ ~actor.exists) => ret = S[1]

SetThresholds ==
  {o[1] : o \in {x \in {activity.attack.critical.threshold, item.criticalThreshold} :
                   IsSet(x)}}

\* C6. criticalThreshold is the least of the overrides that are set, of the
\* activity and of the item, whether above 20 or not, and 20 when none is.
C6_CriticalThresholdIsMinimum ==
  op = "criticalThreshold" =>
     IF SetThresholds = {} THEN ret = DefaultThreshold
     ELSE ret \in SetThresholds /\ \A t \in SetThresholds : ret <= t

\* The activity's override of 19 alone gives 19.
C6_Witness ==
  /\ op = "criticalThreshold"
  /\ activity.attack.critical.threshold = <<DefaultThreshold - 1>>
  /\ item.criticalThreshold = Unset
  /\ ret = DefaultThreshold - 1

NpcWeaponAttack ==
  /\ op = "availableAbilities"
  /\ actor.exists
  /\ actor.type = "npc"
  /\ activity.attack.type.classification \in {"weapon", "unarmed"}

BothDefaults(S) == Len(S) = 2 /\ Range(S) = {meleeAttack, rangedAttack}

\* C7 as stated. For an NPC and a weapon or unarmed attack, whatever the
\* owning item, availableAbilities is the two default abilities.
C7_NpcGetsBothDefaults == NpcWeaponAttack => BothDefaults(ret)

\* C7 as amended. For an NPC and a weapon or unarmed attack whose owning item
\* declares no available abilities of its own, availableAbilities is the two
\* default abilities; an item's own set is returned as it is.
C7_NpcGetsBothDefaultsUnlessItem ==
  NpcWeaponAttack =>
     IF IsSet(item.availableAbilities) THEN ret = item.availableAbilities[1]
     ELSE BothDefaults(ret)

\* An NPC's ranged unarmed attack with an item that declares nothing.
C7_Witness ==
  /\ NpcWeaponAttack
  /\ ~IsSet(item.availableAbilities)
  /\ activity.attack.type.value = "ranged"
  /\ activity.attack.type.classification = "unarmed"
  /\ ret = <<meleeAttack, rangedAttack>>

\* C8. The attack terms hold @mod exactly when there is an actor, the attack
\* is not flat and the ability getter resolves an ability (neither null nor
\* "none").
C8_ModIffAbilityResolved ==
  op = "getAttackData" =>
     (("@mod" \in Range(ret.parts)) <=>
        /\ actor.exists
        /\ ~activity.attack.flat
        /\ ability(actor, item, activity) \notin {NULL, "none"})

VersatileSwap ==
  /\ op = "_processDamagePart"
  /\ item.isVersatile
  /\ args.rollConfig.mode = "twoHanded"

\* The item and the activity are those of before the call
StoredPartsKept == item' = item /\ activity' = activity

C10_PartsPartitioned ==
  (op = "transformTypeData" /\ ~ret.threw) =>
     LET before == args.source
         legacy == IF before.system.hasDamage THEN before.system.damage.parts ELSE << >>
         parts == ret.value.damage.parts
     IN /\ ret.value.damage.includeBase
        /\ IF before.type = "weapon" /\ Len(legacy) >= 1
             THEN /\ source.system.damage.parts = <<legacy[1]>>
                  /\ Len(parts) = Len(legacy) - 1
                  /\ \A i \in 1..Len(parts) :
                        parts[i] = transformDamagePartData(before, legacy[i + 1])
             ELSE /\ source.system.damage = before.system.damage
                  /\ Len(parts) = Len(legacy)
                  /\ \A i \in 1..Len(parts) :
                        parts[i] = transformDamagePartData(before, legacy[i])

\* A migrated weapon with three different legacy parts.
C10_Witness ==
  /\ op = "transformTypeData"
  /\ ~ret.threw
  /\ args.source.type = "weapon"
  /\ Len(args.source.system.damage.parts) = MaxParts + 1
  /\ args.source.system.damage.parts[2] # args.source.system.damage.parts[MaxParts + 1]
  /\ Len(ret.value.damage.parts) = MaxParts

====
